---------------------------- MODULE Spec2Model ----------------------------
(***************************************************************************)
(* Model of src/VCF_data_processor.py: the rsID extractor, the genotype    *)
(* column resolver, the variant list reader, the whole-file table          *)
(* processor with its companion filter, and the Streamlit script that      *)
(* wires them behind the Run and Reset buttons.                            *)
(*                                                                         *)
(* Text is a sequence of one-character strings.  A missing value (Python   *)
(* None, pandas NaN) is a one-element sequence holding a longer string, so *)
(* that it differs from every text.                                        *)
(***************************************************************************)
EXTENDS Integers, Sequences, FiniteSets, TLC

VARIABLES
    \* the function-level harness: the arguments, the functions applied so
    \* far, and the value (or exception) the last one produced
    args, called, ret,
    \* the widgets of the page (st.session_state)
    uploaded_vcf, user_id_input, uploaded_variant_file, variant_list_raw,
    \* one pass of the script: which button started it, where it stands,
    \* the stages it has invoked, the exceptions they raised, its locals
    run_clicked, reset_clicked, pc, calls, raised, df_processed, variant_set,
    df_filtered,
    \* what the pass has drawn on the page
    page

harness == <<args, called, ret>>
widgets == <<uploaded_vcf, user_id_input, uploaded_variant_file, variant_list_raw>>
pass    == <<run_clicked, reset_clicked, pc, calls, raised, df_processed, variant_set, df_filtered, page>>
vars    == <<args, called, ret, uploaded_vcf, user_id_input, uploaded_variant_file,
             variant_list_raw, run_clicked, reset_clicked, pc, calls, raised, df_processed,
             variant_set, df_filtered, page>>

---------------------------------------------------------------------------
(* Characters and Python's str methods                                     *)

None == <<"None">>
NaN  == <<"NaN">>
\* None where the value would be an object: an uploaded export, a DataFrame,
\* a download
Absent == [absent |-> TRUE]

UpperChars == <<"A","B","C","D","E","F","G","H","I","J","K","L","M",
                "N","O","P","Q","R","S","T","U","V","W","X","Y","Z">>
LowerChars == <<"a","b","c","d","e","f","g","h","i","j","k","l","m",
                "n","o","p","q","r","s","t","u","v","w","x","y","z">>

IsUpper(c) == \E i \in 1..26 : UpperChars[i] = c
IsLetter(c) == \E i \in 1..26 : UpperChars[i] = c \/ LowerChars[i] = c
IsDigit(c) == c \in {"0","1","2","3","4","5","6","7","8","9"}
\* \w of the regular expressions
IsWord(c) == IsLetter(c) \/ IsDigit(c) \/ c = "_"
\* \s of the regular expressions, and what str.strip() removes
IsSpace(c) == c \in {" ", "\n", "\t", "\r"}

LowerChar(c) == IF IsUpper(c)
                THEN LowerChars[CHOOSE i \in 1..26 : UpperChars[i] = c]
                ELSE c

RECURSIVE lower(_)
lower(s) == IF s = <<>> THEN <<>> ELSE <<LowerChar(Head(s))>> \o lower(Tail(s))

RECURSIVE lstrip(_)
lstrip(s) == IF s # <<>> /\ IsSpace(Head(s)) THEN lstrip(Tail(s)) ELSE s

RECURSIVE rstrip(_)
rstrip(s) == IF s # <<>> /\ IsSpace(s[Len(s)])
             THEN rstrip(SubSeq(s, 1, Len(s) - 1)) ELSE s

strip(s) == rstrip(lstrip(s))

\* needle in haystack (Python's `in` on str)
Contains(haystack, needle) ==
    \E i \in 1..(Len(haystack) - Len(needle) + 1) :
        SubSeq(haystack, i, i + Len(needle) - 1) = needle

RECURSIVE Flatten(_)
Flatten(ss) == IF ss = <<>> THEN <<>> ELSE Head(ss) \o Flatten(Tail(ss))

---------------------------------------------------------------------------
(* 1. extract_rs_id: re.search(r"\b(rs\d+)\b", str(text), re.IGNORECASE)   *)

WordAt(s, p) == p \in 1..Len(s) /\ IsWord(s[p])

\* \b in the gap before position p
Boundary(s, p) == WordAt(s, p - 1) # WordAt(s, p)

\* the greedy \d+ : the last index of the digit run that starts at j
RECURSIVE GreedyDigits(_, _)
GreedyDigits(s, j) == IF j + 1 <= Len(s) /\ IsDigit(s[j + 1])
                      THEN GreedyDigits(s, j + 1) ELSE j

\* backtracking of \d+ until the closing \b holds; 0 when it never does
RECURSIVE BacktrackDigits(_, _, _)
BacktrackDigits(s, i, j) ==
    IF j < i + 2 THEN 0
    ELSE IF Boundary(s, j + 1) THEN j
    ELSE BacktrackDigits(s, i, j - 1)

\* MatchAt with the opening \b left out of the pattern
MatchAt_no_leading_boundary(s, i) ==
    IF /\ i + 2 <= Len(s)
       /\ LowerChar(s[i]) = "r"
       /\ LowerChar(s[i + 1]) = "s"
       /\ IsDigit(s[i + 2])
    THEN BacktrackDigits(s, i, GreedyDigits(s, i + 2))
    ELSE 0

\* the end of the match of the pattern anchored at i, 0 when there is none
MatchAt(s, i) ==
    IF /\ Boundary(s, i)
       /\ i + 2 <= Len(s)
       /\ LowerChar(s[i]) = "r"
       /\ LowerChar(s[i + 1]) = "s"
       /\ IsDigit(s[i + 2])
    THEN BacktrackDigits(s, i, GreedyDigits(s, i + 2))
    ELSE 0

\* re.search: the match at the leftmost start position, group(1)
RECURSIVE re_search_rs(_, _)
re_search_rs(s, i) ==
    IF i > Len(s) THEN None
    ELSE IF MatchAt(s, i) # 0 THEN SubSeq(s, i, MatchAt(s, i))
    ELSE re_search_rs(s, i + 1)

\* extract_rs_id without the .lower() of the match
extract_rs_id_no_lower(text) ==
    IF text = NaN \/ text = None THEN None
    ELSE re_search_rs(text, 1)

extract_rs_id(text) ==
    IF text = NaN \/ text = None THEN None
    ELSE IF re_search_rs(text, 1) = None THEN None
    ELSE lower(re_search_rs(text, 1))

---------------------------------------------------------------------------
(* 2. find_genotype_column                                                 *)

\* ".Plus/Minus Alleles" and "-R.Plus/Minus Alleles"
Suffix1 == <<".","P","l","u","s","/","M","i","n","u","s"," ","A","l","l","e","l","e","s">>
Suffix2 == <<"-","R">> \o Suffix1

\* d[k] = v of a Python dict: a later assignment to a key replaces the earlier
DictSet(d, k, v) == [x \in (DOMAIN d) \cup {k} |-> IF x = k THEN v ELSE d[x]]

\* {c.lower(): c for c in df.columns}, built in column order
RECURSIVE cols_lower(_)
cols_lower(columns) ==
    IF columns = <<>> THEN [x \in {} |-> None]
    ELSE LET c == columns[Len(columns)]
         IN DictSet(cols_lower(SubSeq(columns, 1, Len(columns) - 1)), lower(c), c)

\* for c in df.columns: if user_id.lower() in c.lower(): return c
RECURSIVE first_containing(_, _)
first_containing(columns, uid) ==
    IF columns = <<>> THEN None
    ELSE IF Contains(lower(Head(columns)), lower(uid)) THEN Head(columns)
    ELSE first_containing(Tail(columns), uid)

\* find_genotype_column with the substring fallback tried before the exact
\* names
find_genotype_column_fallback_first(columns, user_id) ==
    LET uid == strip(user_id)
        expected_1 == uid \o Suffix1
        expected_2 == uid \o Suffix2
        d == cols_lower(columns)
    IN IF uid = <<>> THEN None
       ELSE IF first_containing(columns, uid) # None THEN first_containing(columns, uid)
       ELSE IF lower(expected_1) \in DOMAIN d THEN d[lower(expected_1)]
       ELSE IF lower(expected_2) \in DOMAIN d THEN d[lower(expected_2)]
       ELSE None

find_genotype_column(columns, user_id) ==
    LET uid == strip(user_id)
        expected_1 == uid \o Suffix1
        expected_2 == uid \o Suffix2
        d == cols_lower(columns)
    IN IF uid = <<>> THEN None
       ELSE IF lower(expected_1) \in DOMAIN d THEN d[lower(expected_1)]
       ELSE IF lower(expected_2) \in DOMAIN d THEN d[lower(expected_2)]
       ELSE first_containing(columns, uid)

---------------------------------------------------------------------------
(* Values a function returns or raises                                     *)

NoExc == [type |-> "", msg |-> "", info |-> <<>>]
Ok(v) == [ok |-> TRUE, val |-> v, exc |-> NoExc]
Raise(type, msg, info) ==
    [ok |-> FALSE, val |-> None, exc |-> [type |-> type, msg |-> msg, info |-> info]]

Range(s) == {s[i] : i \in 1..Len(s)}

---------------------------------------------------------------------------
(* 3. process_vcf_file                                                     *)

ColName       == <<"N","a","m","e">>
ColChr        == <<"C","h","r">>
ColPosition   == <<"P","o","s","i","t","i","o","n">>
ColVariant    == <<"V","a","r","i","a","n","t">>
ColPos        == <<"P","o","s">>
ColGenotype   == <<"G","e","n","o","t","y","p","e">>
ColNormalized == <<"N","o","r","m","a","l","i","z","e","d","R","S","I","D">>

\* the strings pandas.read_csv reads as a missing value (keep_default_na)
NaTokens == {<<>>,
             <<"#","N","/","A">>,
             <<"#","N","/","A"," ","N","/","A">>,
             <<"#","N","A">>,
             <<"-","1",".","#","I","N","D">>,
             <<"-","1",".","#","Q","N","A","N">>,
             <<"-","N","a","N">>,
             <<"-","n","a","n">>,
             <<"1",".","#","I","N","D">>,
             <<"1",".","#","Q","N","A","N">>,
             <<"<","N","A",">">>,
             <<"N","/","A">>,
             <<"N","A">>,
             <<"N","U","L","L">>,
             <<"N","a","N">>,
             <<"N","o","n","e">>,
             <<"n","/","a">>,
             <<"n","a","n">>,
             <<"n","u","l","l">>}

\* pd.read_csv(StringIO(raw_text), sep="\t", dtype=str): the header row gives
\* the labels (read_csv renames repeated names apart, so they are distinct),
\* every field stays text, and a field that is an NA token becomes NaN.
read_csv(uploaded_file) ==
    [columns |-> uploaded_file.header,
     rows    |-> [r \in 1..Len(uploaded_file.rows) |->
                    [j \in 1..Len(uploaded_file.rows[r]) |->
                        IF uploaded_file.rows[r][j] \in NaTokens THEN NaN
                        ELSE uploaded_file.rows[r][j]]]]

\* the dict literal of lines 65-70: genotype_col is the last key written
rename_map(genotype_col) ==
    DictSet(DictSet(DictSet(DictSet([x \in {} |-> None],
        ColName, ColVariant), ColChr, ColChr), ColPosition, ColPos),
        genotype_col, ColGenotype)

\* df.rename(columns=m): every label that is a key of m is replaced
rename(df, m) ==
    [columns |-> [j \in 1..Len(df.columns) |->
                    IF df.columns[j] \in DOMAIN m THEN m[df.columns[j]]
                    ELSE df.columns[j]],
     rows |-> df.rows]

\* the positions of the columns labelled `label`, in column order
RECURSIVE positions(_, _, _)
positions(columns, label, j) ==
    IF j > Len(columns) THEN <<>>
    ELSE (IF columns[j] = label THEN <<j>> ELSE <<>>) \o positions(columns, label, j + 1)

\* df[labels]: for each label in turn, every column that carries it
RECURSIVE take_positions(_, _)
take_positions(columns, labels) ==
    IF labels = <<>> THEN <<>>
    ELSE positions(columns, Head(labels), 1) \o take_positions(columns, Tail(labels))

getitem(df, labels) ==
    LET ps == take_positions(df.columns, labels)
    IN [columns |-> [k \in 1..Len(ps) |-> df.columns[ps[k]]],
        rows |-> [r \in 1..Len(df.rows) |-> [k \in 1..Len(ps) |-> df.rows[r][ps[k]]]]]

required == <<ColVariant, ColChr, ColPos, ColGenotype>>

process_vcf_file(uploaded_file, user_id) ==
    LET df == read_csv(uploaded_file)
        genotype_col == find_genotype_column(df.columns, user_id)
        renamed == rename(df, rename_map(genotype_col))
        NotAColumn(c) == c \notin Range(renamed.columns)
        missing == SelectSeq(required, NotAColumn)
    IN IF genotype_col = None
       THEN Raise("ValueError", "Unable to find genotype column for user",
                  <<user_id>> \o df.columns)
       ELSE IF missing # <<>>
       THEN Raise("ValueError", "Missing columns after processing", missing)
       ELSE Ok(getitem(renamed, required))

---------------------------------------------------------------------------
(* 4. read_variant_list                                                    *)

\* [,\n\s]
IsSep(c) == c = "," \/ c = "\n" \/ IsSpace(c)

\* re.split(r"[,\n\s]+", content): the fields between the separator runs,
\* the empty ones at either end included
RECURSIVE re_split(_, _, _)
re_split(s, cur, in_sep) ==
    IF s = <<>> THEN <<cur>>
    ELSE IF IsSep(Head(s))
    THEN IF in_sep THEN re_split(Tail(s), cur, TRUE)
         ELSE <<cur>> \o re_split(Tail(s), <<>>, TRUE)
    ELSE re_split(Tail(s), Append(cur, Head(s)), FALSE)

\* read_variant_list that turns to the pasted text when the file yields no
\* rsID
read_variant_list_falls_back(file_obj, text_input) ==
    LET NonBlank(x) == strip(x) # <<>>
        Ids(content) ==
            LET split == SelectSeq(re_split(content, <<>>, FALSE), NonBlank)
            IN {extract_rs_id(strip(split[k])) : k \in 1..Len(split)} \ {None, <<>>}
        normalized == IF file_obj # None /\ Ids(file_obj) # {} THEN Ids(file_obj)
                      ELSE Ids(strip(text_input))
    IN IF file_obj = None /\ strip(text_input) = <<>>
       THEN Raise("ValueError", "No variant list provided.", <<>>)
       ELSE IF normalized = {}
       THEN Raise("ValueError", "No recognizable rsIDs found (e.g., rs12345).", <<>>)
       ELSE Ok(normalized)

read_variant_list(file_obj, text_input) ==
    LET content == IF file_obj # None THEN file_obj ELSE strip(text_input)
        NonBlank(x) == strip(x) # <<>>
        split == SelectSeq(re_split(content, <<>>, FALSE), NonBlank)
        tokens == [k \in 1..Len(split) |-> strip(split[k])]
        normalized == {extract_rs_id(tokens[k]) : k \in 1..Len(tokens)} \ {None, <<>>}
    IN IF file_obj = None /\ strip(text_input) = <<>>
       THEN Raise("ValueError", "No variant list provided.", <<>>)
       ELSE IF normalized = {}
       THEN Raise("ValueError", "No recognizable rsIDs found (e.g., rs12345).", <<>>)
       ELSE Ok(normalized)

---------------------------------------------------------------------------
(* 5. filter_variants                                                      *)

\* Series.str.extract(r"(?i)\b(rs\d+)\b", expand=False).str.lower() on one cell
str_extract_lower(cell) ==
    IF cell = NaN THEN NaN
    ELSE IF re_search_rs(cell, 1) = None THEN NaN
    ELSE lower(re_search_rs(cell, 1))

\* df["NormalizedRSID"] = series: a new last column
setitem(df, label, series) ==
    [columns |-> Append(df.columns, label),
     rows |-> [r \in 1..Len(df.rows) |-> Append(df.rows[r], series[r])]]

\* out.drop(columns=[label], errors="ignore")
drop(df, label) ==
    LET keep == SelectSeq([j \in 1..Len(df.columns) |-> j],
                          LAMBDA j : df.columns[j] # label)
    IN [columns |-> [k \in 1..Len(keep) |-> df.columns[keep[k]]],
        rows |-> [r \in 1..Len(df.rows) |-> [k \in 1..Len(keep) |-> df.rows[r][keep[k]]]]]

filter_variants(df, vset) ==
    LET vpos == positions(df.columns, ColVariant, 1)
        series == [r \in 1..Len(df.rows) |-> str_extract_lower(df.rows[r][vpos[1]])]
        withn == setitem(df, ColNormalized, series)
        IsIn(row) == row[Len(row)] \in vset
        out == [columns |-> withn.columns, rows |-> SelectSeq(withn.rows, IsIn)]
    IN IF vpos = <<>>
       THEN Raise("KeyError", "Variant", <<>>)
       ELSE IF Len(vpos) > 1
       \* df["Variant"] is then a DataFrame, which has no .str accessor
       THEN Raise("AttributeError", "'DataFrame' object has no attribute 'str'", <<>>)
       ELSE Ok(drop(out, ColNormalized))

---------------------------------------------------------------------------
(* The page as first loaded, and the harness at rest                       *)

\* value="IG1234" of the user id field
DefaultUserId == <<"I","G","1","2","3","4">>
\* value="rs12976533\nrs267333\nrs34670133" of the text area
DefaultVariantText == <<"r","s","1","2","9","7","6","5","3","3","\n","r","s","2","6","7","3","3","3","\n","r","s","3","4","6","7","0","1","3","3">>

EmptyPage == [errors |-> <<>>, warnings |-> <<>>, success |-> <<>>,
              dataframe |-> Absent, download |-> Absent]

WidgetDefaults ==
    /\ uploaded_vcf = Absent
    /\ user_id_input = DefaultUserId
    /\ uploaded_variant_file = None
    /\ variant_list_raw = DefaultVariantText

PassAtRest ==
    /\ run_clicked = FALSE
    /\ reset_clicked = FALSE
    /\ pc = "idle"
    /\ calls = <<>>
    /\ raised = <<>>
    /\ df_processed = Absent
    /\ variant_set = {}
    /\ df_filtered = Absent
    /\ page = EmptyPage

\* every sequence of at most n elements of S
SeqsUpTo(S, n) == UNION {[1..k -> S] : k \in 0..n}

\* a function applied in the harness: its name is logged, its value kept
Apply(name, value) ==
    /\ called' = Append(called, name)
    /\ ret' = value
    /\ UNCHANGED <<args, widgets, pass>>

---------------------------------------------------------------------------
(* extract_rs_id on bounded texts                                          *)

MaxRsPieces == 5

RsPieces == {<<"r","s">>, <<"R","s">>, <<"1">>, <<"2">>, <<"x">>, <<"_">>, <<"-">>}

\* the examples of the specification's testable property 1
ExampleExtra  == <<"R","s","1","2","3","4","5","_","e","x","t","r","a">>
ExampleSpaced == <<"R","s","1","2","3","4","5"," ","e","x","t","r","a">>
ExampleNoId   == <<"n","o"," ","i","d"," ","h","e","r","e">>

\* a text whose first rs+digits is inside a longer word
ExampleLeftmost == <<"x","r","s","1","-","R","s","2","-","r","s","1">>

RsTexts == {Flatten(ps) : ps \in SeqsUpTo(RsPieces, MaxRsPieces)}
               \cup {NaN, ExampleExtra, ExampleSpaced, ExampleNoId, ExampleLeftmost}

InitRs ==
    /\ args \in {[text |-> t] : t \in RsTexts}
    /\ called = <<>>
    /\ ret = None
    /\ WidgetDefaults
    /\ PassAtRest

Call_extract_rs_id ==
    /\ called = <<>>
    /\ Apply("extract_rs_id", extract_rs_id(args.text))

NextRs == Call_extract_rs_id

SpecRs == InitRs /\ [][NextRs]_vars

\* t[i..j] reads rs (in any case) followed by one or more digits
IsRsDigits(t, i, j) ==
    /\ 1 <= i /\ i + 2 <= j /\ j <= Len(t)
    /\ t[i] \in {"r", "R"} /\ t[i + 1] \in {"s", "S"}
    /\ \A k \in (i + 2)..j : IsDigit(t[k])

\* t[i..j] is such a substring with no letter, digit or underscore next to it
IsWholeWord(t, i, j) ==
    /\ IsRsDigits(t, i, j)
    /\ (i = 1 \/ ~IsWord(t[i - 1]))
    /\ (j = Len(t) \/ ~IsWord(t[j + 1]))

Spans(t) == {<<i, j>> \in (1..Len(t)) \X (1..Len(t)) : i <= j}
RsSpans(t) == {ij \in Spans(t) : IsRsDigits(t, ij[1], ij[2])}
WholeWordSpans(t) == {ij \in Spans(t) : IsWholeWord(t, ij[1], ij[2])}
Text(t, ij) == SubSeq(t, ij[1], ij[2])

Extracted == called = <<"extract_rs_id">>

\* C5 as stated: a text that contains rs+digits anywhere yields one of those
\* substrings lowercased, a text that contains none yields absent, and
\* "Rs12345_extra" yields "rs12345".
C5_Stated ==
    Extracted /\ args.text # NaN =>
        /\ IF RsSpans(args.text) # {}
           THEN ret \in {lower(Text(args.text, ij)) : ij \in RsSpans(args.text)}
           ELSE ret = None
        /\ (args.text = ExampleExtra => ret = <<"r","s","1","2","3","4","5">>)
        /\ (args.text = ExampleNoId => ret = None)

\* C5 amended: a text that contains rs+digits as a whole word yields one of
\* those whole words lowercased, and a text with no whole-word rs+digits
\* yields absent; "Rs12345_extra" yields absent, "Rs12345 extra" yields
\* "rs12345" and "no id here" yields absent.
C5_WholeWordExtracted ==
    Extracted /\ args.text # NaN =>
        /\ IF WholeWordSpans(args.text) # {}
           THEN ret \in {lower(Text(args.text, ij)) : ij \in WholeWordSpans(args.text)}
           ELSE ret = None
        /\ (args.text = ExampleExtra => ret = None)
        /\ (args.text = ExampleSpaced => ret = <<"r","s","1","2","3","4","5">>)
        /\ (args.text = ExampleNoId => ret = None)

C5_Witness ==
    /\ Extracted
    /\ args.text = ExampleSpaced
    /\ ret = <<"r","s","1","2","3","4","5">>

\* C6: the result is the leftmost whole-word rs+digits of the text,
\* lowercased, so it is never next to a letter, digit or underscore; it is
\* absent for a missing input and when no rs+digits stands as a whole word.
C6_LeftmostWholeWord ==
    Extracted =>
        IF args.text = NaN \/ WholeWordSpans(args.text) = {}
        THEN ret = None
        ELSE \E ij \in WholeWordSpans(args.text) :
                /\ \A kl \in WholeWordSpans(args.text) : ij[1] <= kl[1]
                /\ ret = lower(Text(args.text, ij))
                /\ ~WordAt(args.text, ij[1] - 1)
                /\ ~WordAt(args.text, ij[2] + 1)

C6_Witness ==
    /\ Extracted
    /\ args.text = ExampleLeftmost
    /\ ret = <<"r","s","2">>

---------------------------------------------------------------------------
(* find_genotype_column on bounded column lists                            *)

MaxResolverCols == 3

\* column lists: at most n labels of S, no label twice (read_csv's labels)
Headers(S, n) ==
    {h \in SeqsUpTo(S, n) : \A i, j \in 1..Len(h) : i # j => h[i] # h[j]}

ResolverLabels ==
    {<<"i","g">> \o Suffix1, <<"I","G">> \o Suffix1,
     <<"i","g">> \o Suffix2, <<"I","g">> \o Suffix2,
     <<"x","_","I","G">>, <<"i","g","y">>,
     ColName, ColChr}

ResolverUserIds ==
    {<<>>, <<" ">>, <<"i","g">>, <<" ","I","g"," ">>, <<"z","z">>, <<"a">>}

InitResolver ==
    /\ args \in {[columns |-> h, user_id |-> u] :
                    h \in Headers(ResolverLabels, MaxResolverCols),
                    u \in ResolverUserIds}
    /\ called = <<>>
    /\ ret = None
    /\ WidgetDefaults
    /\ PassAtRest

Call_find_genotype_column ==
    /\ called = <<>>
    /\ Apply("find_genotype_column", find_genotype_column(args.columns, args.user_id))

NextResolver == Call_find_genotype_column

SpecResolver == InitResolver /\ [][NextResolver]_vars

Resolved == called = <<"find_genotype_column">>

EqualsIgnoringCase(a, b) == lower(a) = lower(b)

\* the indices of the columns that match at tier 1, 2 and 3
Tier1(columns, id) ==
    {i \in 1..Len(columns) : EqualsIgnoringCase(columns[i], id \o Suffix1)}
Tier2(columns, id) ==
    {i \in 1..Len(columns) : EqualsIgnoringCase(columns[i], id \o Suffix2)}
Tier3(columns, id) ==
    {i \in 1..Len(columns) : Contains(lower(columns[i]), lower(id))}

WinningTier(columns, id) ==
    IF id = <<>> THEN {}
    ELSE IF Tier1(columns, id) # {} THEN Tier1(columns, id)
    ELSE IF Tier2(columns, id) # {} THEN Tier2(columns, id)
    ELSE Tier3(columns, id)

\* C3: the resolver returns a column of the first non-empty tier, whatever
\* the column order, and returns absent exactly when the trimmed identifier
\* is empty or no column contains it.
C3_PriorityOrdered ==
    Resolved =>
        LET id == strip(args.user_id)
            win == WinningTier(args.columns, id)
        IN /\ IF win = {} THEN ret = None
              ELSE ret \in {args.columns[i] : i \in win}
           /\ (ret = None <=> (id = <<>> \/ Tier3(args.columns, id) = {}))

C3_Witness ==
    /\ Resolved
    /\ args.user_id = <<" ","I","g"," ">>
    /\ args.columns = <<<<"x","_","I","G">>, <<"I","g">> \o Suffix2, <<"i","g">> \o Suffix1>>
    /\ ret = <<"i","g">> \o Suffix1

\* C4 as stated: when several columns match at the winning tier, the one
\* returned is the earliest of them in column order.
C4_FirstMatchWins ==
    Resolved =>
        LET win == WinningTier(args.columns, strip(args.user_id))
        IN win # {} =>
              ret = args.columns[CHOOSE i \in win : \A j \in win : i <= j]

---------------------------------------------------------------------------
(* read_variant_list on bounded sources                                    *)

MaxListPieces == 4

ListPieces == {<<"r","s","1">>, <<"R","s","2">>, <<"-">>,
               <<",">>, <<" ">>, <<"\n">>}

ListTexts == {Flatten(ps) : ps \in SeqsUpTo(ListPieces, MaxListPieces)}

\* what the source that is not under test holds: nothing, blanks, an rsID
OtherSources == {<<>>, <<" ">>, <<"r","s","9">>}

\* the uploaded file is given by its text: bytes.decode("utf-8",
\* errors="replace") yields a text for every byte string
InitList ==
    /\ args \in {[file_obj |-> f, text_input |-> t] :
                    f \in ListTexts, t \in OtherSources}
          \cup {[file_obj |-> f, text_input |-> t] :
                    f \in OtherSources \cup {None}, t \in ListTexts}
    /\ called = <<>>
    /\ ret = None
    /\ WidgetDefaults
    /\ PassAtRest

Call_read_variant_list ==
    /\ called = <<>>
    /\ Apply("read_variant_list", read_variant_list(args.file_obj, args.text_input))

NextList == Call_read_variant_list

SpecList == InitList /\ [][NextList]_vars

ListRead == called = <<"read_variant_list">>

\* the tokens of a text: its maximal runs of characters that are neither a
\* comma nor whitespace
Tokens(t) ==
    {SubSeq(t, ij[1], ij[2]) : ij \in
        {ij \in Spans(t) :
            /\ \A k \in ij[1]..ij[2] : t[k] # "," /\ ~IsSpace(t[k])
            /\ (ij[1] = 1 \/ t[ij[1] - 1] = "," \/ IsSpace(t[ij[1] - 1]))
            /\ (ij[2] = Len(t) \/ t[ij[2] + 1] = "," \/ IsSpace(t[ij[2] + 1]))}}

RsIdsOf(t) == {extract_rs_id(tok) : tok \in Tokens(t)} \ {None}

IsBlank(t) == \A k \in 1..Len(t) : IsSpace(t[k])

\* C7: the file is consulted when present, else the pasted text when it is
\* not blank, else the call fails with "No variant list provided."; the
\* result is the set of rsIDs of the consulted source's tokens, never empty;
\* the call fails exactly when that set is empty, whatever the other source
\* holds.
C7_OneSourceConsulted ==
    ListRead =>
        IF args.file_obj = None /\ IsBlank(args.text_input)
        THEN ~ret.ok /\ ret.exc.msg = "No variant list provided."
        ELSE LET src == IF args.file_obj # None THEN args.file_obj
                        ELSE args.text_input
             IN IF RsIdsOf(src) = {}
                THEN /\ ~ret.ok
                     /\ ret.exc.type = "ValueError"
                     /\ ret.exc.msg = "No recognizable rsIDs found (e.g., rs12345)."
                ELSE ret.ok /\ ret.val = RsIdsOf(src) /\ ret.val # {}

C7_Witness ==
    /\ ListRead
    /\ args.file_obj = <<"-",",","r","s","1","R","s","2">>
    /\ args.text_input = <<"r","s","9">>
    /\ ~ret.ok

---------------------------------------------------------------------------
(* process_vcf_file, then filter_variants, on bounded exports              *)

MaxTableCols == 5
MaxTableRows == 2

\* the genotype column of user "ig"
GenotypeOfIg == <<"i","g">> \o Suffix1

TableLabels == {ColName, ColChr, ColPosition, GenotypeOfIg, ColPos, ColVariant}

TableUserIds == {<<"i","g">>, <<"m","e">>}

VariantSets == {{<<"r","s","1">>}, {<<"r","s","2">>, <<"r","s","3">>}}

\* a row is given by its Name field and by whether its last field is the
\* NA token; every other field is a text that names its row and column
RowKinds == {[name |-> <<"R","s","1">>, na |-> FALSE],
             [name |-> <<"R","s","1">>, na |-> TRUE],
             [name |-> <<"x"," ","r","s","2","-","r","s","1">>, na |-> FALSE],
             [name |-> <<"r","s","1","x">>, na |-> FALSE]}

Digit(n) == <<"0","1","2","3","4","5","6","7","8","9">>[n + 1]

Field(header, kind, r, j) ==
    IF header[j] = ColName THEN kind.name
    ELSE IF kind.na /\ j = Len(header) THEN <<"N","A">>
    ELSE <<"v", Digit(r), Digit(j)>>

Export(header, kinds) ==
    [header |-> header,
     rows |-> [r \in 1..Len(kinds) |->
                 [j \in 1..Len(header) |-> Field(header, kinds[r], r, j)]]]

InitTable ==
    /\ args \in {[uploaded_file |-> Export(h, ks), user_id |-> u, variant_set |-> {}] :
                    h \in Headers(TableLabels, MaxTableCols),
                    ks \in SeqsUpTo(RowKinds, MaxTableRows),
                    u \in TableUserIds}
    /\ called = <<>>
    /\ ret = None
    /\ WidgetDefaults
    /\ PassAtRest

Call_process_vcf_file ==
    /\ called = <<>>
    /\ Apply("process_vcf_file", process_vcf_file(args.uploaded_file, args.user_id))

Call_filter_variants ==
    /\ called = <<"process_vcf_file">>
    /\ ret.ok
    /\ \E vs \in VariantSets :
          /\ args' = [args EXCEPT !.variant_set = vs]
          /\ called' = Append(called, "filter_variants")
          /\ ret' = filter_variants(ret.val, vs)
    /\ UNCHANGED <<widgets, pass>>

NextTable == Call_process_vcf_file \/ Call_filter_variants

SpecTable == InitTable /\ [][NextTable]_vars

Processed == called = <<"process_vcf_file">>
Filtered == called = <<"process_vcf_file", "filter_variants">>

IndexOf(columns, label) == CHOOSE j \in 1..Len(columns) : columns[j] = label

\* the header supplies Name, Chr, Position and, besides them, a genotype
\* column that resolves
SuppliesColumns(file, user_id) ==
    /\ {ColName, ColChr, ColPosition} \subseteq Range(file.header)
    /\ find_genotype_column(file.header, user_id)
          \notin {None, ColName, ColChr, ColPosition}

\* the rows of the export whose Name field's rsID is in the set, in order,
\* each as <<Name, Chr, Position, genotype>> of that row
RECURSIVE ExpectedRecords(_, _, _, _)
ExpectedRecords(file, user_id, vs, r) ==
    IF r > Len(file.rows) THEN <<>>
    ELSE LET row == file.rows[r]
             g == find_genotype_column(file.header, user_id)
             rec == <<row[IndexOf(file.header, ColName)],
                      row[IndexOf(file.header, ColChr)],
                      row[IndexOf(file.header, ColPosition)],
                      row[IndexOf(file.header, g)]>>
         IN (IF extract_rs_id(rec[1]) \in vs THEN <<rec>> ELSE <<>>)
                \o ExpectedRecords(file, user_id, vs, r + 1)

\* the table holds exactly these records, in this order: every column
\* labelled Variant, Chr, Pos or Genotype holds the record's field
HoldsRecords(df, records) ==
    /\ Len(df.rows) = Len(records)
    /\ \A k \in 1..4 : required[k] \in Range(df.columns)
    /\ \A r \in 1..Len(df.rows) : \A k \in 1..4 : \A j \in 1..Len(df.columns) :
          df.columns[j] = required[k] => df.rows[r][j] = records[r][k]

\* C1 as stated: for every export whose header supplies Name, Chr, Position
\* and a resolvable genotype column, and every variant set, the two calls
\* return, and return exactly the rows whose Name field's rsID is in the
\* set, in input order, with Variant, Chr, Pos and Genotype equal to that
\* row's Name, Chr, Position and genotype fields.
C1_ExactlyTheMatchingRows ==
    SuppliesColumns(args.uploaded_file, args.user_id) =>
        /\ (Processed \/ Filtered => ret.ok)
        /\ (Filtered /\ ret.ok =>
              HoldsRecords(ret.val, ExpectedRecords(args.uploaded_file, args.user_id,
                                                    args.variant_set, 1)))

\* C2 as stated: a non-empty table returned by the two calls has exactly
\* the columns Variant, Chr, Pos, Genotype, each once and in that order.
C2_ExactlyFourColumns ==
    Filtered /\ ret.ok /\ ret.val.rows # <<>> => ret.val.columns = required

---------------------------------------------------------------------------
(* 6. The Streamlit script: widgets, the Run and Reset buttons, the        *)
(*    pipeline under `if run_clicked:`                                     *)

\* the genotype column of the default user
GenotypeOfDefault == DefaultUserId \o Suffix1

InList    == [name |-> <<"r","s","2","6","7","3","3","3">>, na |-> FALSE]
NotInList == [name |-> <<"r","s","9","9","9">>, na |-> FALSE]

\* the exports a user may upload: a good one, one that matches no rsID of
\* the list, one with no genotype column, one with no Chr column, and one
\* that already has a Variant column
UploadableExports ==
    {Export(<<ColName, ColChr, ColPosition, GenotypeOfDefault>>, <<InList, NotInList>>),
     Export(<<ColName, ColChr, ColPosition, GenotypeOfDefault>>, <<NotInList>>),
     Export(<<ColName, ColChr, ColPosition>>, <<InList>>),
     Export(<<ColName, ColPosition, GenotypeOfDefault>>, <<InList>>),
     Export(<<ColVariant, ColName, ColChr, ColPosition, GenotypeOfDefault>>, <<InList>>)}

TypedUserIds == {DefaultUserId, <<>>, <<" ">>, <<"z","z">>}

UploadableLists == {<<"r","s","2","6","7","3","3","3",","," ","r","s","5">>, <<"x">>}

TypedLists == {DefaultVariantText, <<>>, <<"r","s","9","9","9">>}

\* a widget changed or a button was clicked: Streamlit runs the script again
\* from the top, with an empty page
StartPass(run, reset) ==
    /\ run_clicked' = run
    /\ reset_clicked' = reset
    /\ pc' = "top"
    /\ calls' = <<>>
    /\ raised' = <<>>
    /\ df_processed' = Absent
    /\ variant_set' = {}
    /\ df_filtered' = Absent
    /\ page' = EmptyPage
    /\ UNCHANGED harness

UploadVcf ==
    /\ pc = "idle"
    /\ \E f \in UploadableExports \cup {Absent} : uploaded_vcf' = f
    /\ UNCHANGED <<user_id_input, uploaded_variant_file, variant_list_raw>>
    /\ StartPass(FALSE, FALSE)

TypeUserId ==
    /\ pc = "idle"
    /\ \E u \in TypedUserIds : user_id_input' = u
    /\ UNCHANGED <<uploaded_vcf, uploaded_variant_file, variant_list_raw>>
    /\ StartPass(FALSE, FALSE)

UploadVariantFile ==
    /\ pc = "idle"
    /\ \E f \in UploadableLists \cup {None} : uploaded_variant_file' = f
    /\ UNCHANGED <<uploaded_vcf, user_id_input, variant_list_raw>>
    /\ StartPass(FALSE, FALSE)

TypeVariantList ==
    /\ pc = "idle"
    /\ \E t \in TypedLists : variant_list_raw' = t
    /\ UNCHANGED <<uploaded_vcf, user_id_input, uploaded_variant_file>>
    /\ StartPass(FALSE, FALSE)

ClickRun ==
    /\ pc = "idle"
    /\ UNCHANGED widgets
    /\ StartPass(TRUE, FALSE)

ClickReset ==
    /\ pc = "idle"
    /\ UNCHANGED widgets
    /\ StartPass(FALSE, TRUE)

\* if reset_clicked: st.session_state.clear(); st.rerun()
Reset ==
    /\ pc = "top"
    /\ reset_clicked
    /\ uploaded_vcf' = Absent
    /\ user_id_input' = DefaultUserId
    /\ uploaded_variant_file' = None
    /\ variant_list_raw' = DefaultVariantText
    /\ StartPass(FALSE, FALSE)

\* neither button was clicked: the script ends below `if run_clicked:`
EndOfScript ==
    /\ pc = "top"
    /\ ~reset_clicked
    /\ ~run_clicked
    /\ pc' = "idle"
    /\ UNCHANGED <<harness, widgets, run_clicked, reset_clicked, calls, raised,
                   df_processed, variant_set, df_filtered, page>>

\* user_id = st.text_input(...).strip()
user_id == strip(user_id_input)

Message(text, exc) == [text |-> text, exc |-> exc]

\* the try block with the variant list read first
StageOrder_reader_first == <<"read_variant_list", "process_vcf_file", "filter_variants">>

\* the stages of the try block, in the order the script invokes them
StageOrder == <<"process_vcf_file", "read_variant_list", "filter_variants">>

\* where the script stands once `stage` has returned
After(stage) ==
    LET k == CHOOSE i \in 1..Len(StageOrder) : StageOrder[i] = stage
    IN IF k = Len(StageOrder) THEN "render" ELSE StageOrder[k + 1]

\* Validate without the `if not user_id:` check
Validate_without_user_id_check ==
    /\ pc = "top"
    /\ ~reset_clicked
    /\ run_clicked
    /\ calls' = Append(calls, "validate")
    /\ IF uploaded_vcf = Absent
       THEN /\ page' = [page EXCEPT !.errors =
                          Append(@, Message("Please upload the main VCF-like file.", NoExc))]
            /\ pc' = "idle"
       ELSE /\ page' = page
            /\ pc' = StageOrder[1]
    /\ UNCHANGED <<harness, widgets, run_clicked, reset_clicked, raised,
                   df_processed, variant_set, df_filtered>>

\* the two checks that precede the try block; st.stop() ends the pass
Validate ==
    /\ pc = "top"
    /\ ~reset_clicked
    /\ run_clicked
    /\ calls' = Append(calls, "validate")
    /\ IF uploaded_vcf = Absent
       THEN /\ page' = [page EXCEPT !.errors =
                          Append(@, Message("Please upload the main VCF-like file.", NoExc))]
            /\ pc' = "idle"
       ELSE IF user_id = <<>>
       THEN /\ page' = [page EXCEPT !.errors =
                          Append(@, Message("Please enter a valid User ID.", NoExc))]
            /\ pc' = "idle"
       ELSE /\ page' = page
            /\ pc' = StageOrder[1]
    /\ UNCHANGED <<harness, widgets, run_clicked, reset_clicked, raised,
                   df_processed, variant_set, df_filtered>>

\* a stage returned `result`: on an exception control passes to the except
\* clause, else to the next stage
Returned(stage, result) ==
    /\ calls' = Append(calls, stage)
    /\ IF result.ok
       THEN raised' = raised /\ pc' = After(stage)
       ELSE raised' = Append(raised, result.exc) /\ pc' = "except"
    /\ UNCHANGED <<harness, widgets, run_clicked, reset_clicked, page>>

Stage_process_vcf_file ==
    /\ pc = "process_vcf_file"
    /\ LET result == process_vcf_file(uploaded_vcf, user_id)
       IN /\ Returned("process_vcf_file", result)
          /\ df_processed' = IF result.ok THEN result.val ELSE df_processed
    /\ UNCHANGED <<variant_set, df_filtered>>

Stage_read_variant_list ==
    /\ pc = "read_variant_list"
    /\ LET result == read_variant_list(uploaded_variant_file, variant_list_raw)
       IN /\ Returned("read_variant_list", result)
          /\ variant_set' = IF result.ok THEN result.val ELSE variant_set
    /\ UNCHANGED <<df_processed, df_filtered>>

\* filter_variants also leaves its NormalizedRSID column in df_processed
Stage_filter_variants ==
    /\ pc = "filter_variants"
    /\ LET result == filter_variants(df_processed, variant_set)
       IN /\ Returned("filter_variants", result)
          /\ df_filtered' = IF result.ok THEN result.val ELSE df_filtered
          /\ df_processed' =
                IF result.ok
                THEN setitem(df_processed, ColNormalized,
                             [r \in 1..Len(df_processed.rows) |->
                                 str_extract_lower(df_processed.rows[r]
                                     [positions(df_processed.columns, ColVariant, 1)[1]])])
                ELSE df_processed
    /\ UNCHANGED variant_set

RECURSIVE Join(_, _)
Join(parts, sep) ==
    IF parts = <<>> THEN <<>>
    ELSE IF Len(parts) = 1 THEN parts[1]
    ELSE parts[1] \o sep \o Join(Tail(parts), sep)

\* df.to_csv(sep="\t", index=False): a header line, then a line per row, a
\* missing value written as the empty text
to_csv(df) ==
    LET Line(fields) ==
            Join([j \in 1..Len(fields) |->
                     IF fields[j] = NaN THEN <<>> ELSE fields[j]], <<"\t">>) \o <<"\n">>
    IN Line(df.columns) \o Flatten([r \in 1..Len(df.rows) |-> Line(df.rows[r])])

\* df.empty
empty(df) == df.rows = <<>> \/ df.columns = <<>>

\* Render without the `if df_filtered.empty:` branch
Render_offers_empty_table ==
    /\ pc = "render"
    /\ page' = [page EXCEPT
                !.success = Append(@, [text |-> "Found matching variants!",
                                       count |-> Len(df_filtered.rows)]),
                !.dataframe = df_filtered,
                !.download = [data |-> to_csv(df_filtered),
                              file_name |-> <<"e","x","t","r","a","c","t","e","d","_","v","a","r","i","a","n","t","s","_">> \o user_id
                                                \o <<".","t","s","v">>,
                              mime |-> "text/tab-separated-values"]]
    /\ pc' = "idle"
    /\ UNCHANGED <<harness, widgets, run_clicked, reset_clicked, calls, raised,
                   df_processed, variant_set, df_filtered>>

\* the outcome rendering at the end of the try block
Render ==
    /\ pc = "render"
    /\ IF empty(df_filtered)
       THEN page' = [page EXCEPT !.warnings = Append(@, "No matching variants found.")]
       ELSE page' = [page EXCEPT
                !.success = Append(@, [text |-> "Found matching variants!",
                                       count |-> Len(df_filtered.rows)]),
                !.dataframe = df_filtered,
                !.download = [data |-> to_csv(df_filtered),
                              file_name |-> <<"e","x","t","r","a","c","t","e","d","_","v","a","r","i","a","n","t","s","_">> \o user_id
                                                \o <<".","t","s","v">>,
                              mime |-> "text/tab-separated-values"]]
    /\ pc' = "idle"
    /\ UNCHANGED <<harness, widgets, run_clicked, reset_clicked, calls, raised,
                   df_processed, variant_set, df_filtered>>

\* except Exception as e: st.error(f"Error: {e}")
Except ==
    /\ pc = "except"
    /\ page' = [page EXCEPT !.errors = Append(@, Message("Error: ", raised[Len(raised)]))]
    /\ pc' = "idle"
    /\ UNCHANGED <<harness, widgets, run_clicked, reset_clicked, calls, raised,
                   df_processed, variant_set, df_filtered>>

Init ==
    /\ args = None
    /\ called = <<>>
    /\ ret = None
    /\ WidgetDefaults
    /\ PassAtRest

Next ==
    \/ UploadVcf \/ TypeUserId \/ UploadVariantFile \/ TypeVariantList
    \/ ClickRun \/ ClickReset
    \/ Reset \/ EndOfScript \/ Validate
    \/ Stage_process_vcf_file \/ Stage_read_variant_list \/ Stage_filter_variants
    \/ Render \/ Except

Spec == Init /\ [][Next]_vars

---------------------------------------------------------------------------
(* Claims about a pass started by the Run button                           *)

IsPrefix(a, b) == Len(a) <= Len(b) /\ SubSeq(b, 1, Len(a)) = a

PipelineStages == {"process_vcf_file", "read_variant_list", "filter_variants"}

\* a pass started by Run has ended
RunEnded == run_clicked /\ pc = "idle"

\* the inputs pass validation, and the variant list and the export are both
\* faulty: each function, called on them, raises
BothFaulty ==
    /\ uploaded_vcf # Absent
    /\ strip(user_id_input) # <<>>
    /\ ~read_variant_list(uploaded_variant_file, variant_list_raw).ok
    /\ ~process_vcf_file(uploaded_vcf, strip(user_id_input)).ok

\* what is common to C8 as stated and as amended, for the stage order `order`
\* and the stage `first` whose error is shown when both inputs are faulty
InOrder(order, first_exc) ==
    /\ IsPrefix(calls, order)
    /\ Len(raised) <= 1
    /\ (raised # <<>> => pc \in {"except", "idle"})
    /\ (pc \in PipelineStages =>
            /\ Len(calls) < Len(order)
            /\ pc = order[Len(calls) + 1])
    /\ (BothFaulty /\ RunEnded =>
            /\ Len(page.errors) = 1
            /\ page.errors[1].exc = first_exc)

\* C8 as stated: the stages run in the order validation, Variant List
\* Reader, VCF Table Processor, Filter, none after a failure, and with both
\* inputs faulty the error shown is the Variant List Reader's.
C8_ReaderBeforeProcessor ==
    InOrder(<<"validate", "read_variant_list", "process_vcf_file", "filter_variants">>,
            read_variant_list(uploaded_variant_file, variant_list_raw).exc)

\* C8 amended: the stages run in the order validation, VCF Table Processor,
\* Variant List Reader, Filter, each after the one before it has returned
\* and none after a failure, and with both inputs faulty the error shown is
\* the VCF Table Processor's.
C8_ProcessorBeforeReader ==
    InOrder(<<"validate", "process_vcf_file", "read_variant_list", "filter_variants">>,
            process_vcf_file(uploaded_vcf, strip(user_id_input)).exc)

C8_Witness ==
    /\ RunEnded
    /\ BothFaulty
    /\ calls = <<"validate", "process_vcf_file">>
    /\ page.errors[1].exc.msg = "Unable to find genotype column for user"

\* C9: a Run click with no export uploaded or a blank user id shows one
\* error and halts: no stage is invoked, no table and no download appear;
\* and a pass not started by Run invokes nothing.
C9_ValidationHalts ==
    /\ (~run_clicked => calls = <<>>)
    /\ (run_clicked /\ (uploaded_vcf = Absent \/ strip(user_id_input) = <<>>) =>
            /\ \A k \in 1..Len(calls) : calls[k] \notin PipelineStages
            /\ pc \in {"top", "idle"}
            /\ page.dataframe = Absent
            /\ page.download = Absent
            /\ page.success = <<>>
            /\ (pc = "idle" =>
                    /\ Len(page.errors) = 1
                    /\ page.errors[1].text \in {"Please upload the main VCF-like file.",
                                                "Please enter a valid User ID."}))

C9_Witness ==
    /\ RunEnded
    /\ uploaded_vcf # Absent
    /\ user_id_input = <<" ">>
    /\ calls = <<"validate">>
    /\ page.errors = <<Message("Please enter a valid User ID.", NoExc)>>

\* C10: a table or a download appears only when every stage returned and
\* the filtered table is non-empty; a stage's failure ends the run with one
\* error carrying its text and nothing else; an empty filtered table ends
\* the run with the warning alone.
C10_DownloadOnlyOnSuccess ==
    /\ (page.download # Absent \/ page.dataframe # Absent =>
            /\ raised = <<>>
            /\ PipelineStages \subseteq Range(calls)
            /\ df_filtered # Absent
            /\ df_filtered.rows # <<>>
            /\ page.dataframe = df_filtered
            /\ page.errors = <<>>
            /\ page.warnings = <<>>)
    /\ (RunEnded /\ raised # <<>> =>
            /\ page.errors = <<Message("Error: ", raised[1])>>
            /\ page.dataframe = Absent
            /\ page.download = Absent
            /\ page.warnings = <<>>
            /\ page.success = <<>>)
    /\ (RunEnded /\ raised = <<>> /\ df_filtered # Absent /\ df_filtered.rows = <<>> =>
            /\ page.warnings = <<"No matching variants found.">>
            /\ page.errors = <<>>
            /\ page.dataframe = Absent
            /\ page.download = Absent)

C10_Witness ==
    /\ RunEnded
    /\ calls = <<"validate", "process_vcf_file", "read_variant_list", "filter_variants">>
    /\ df_filtered # Absent
    /\ df_filtered.rows = <<>>
    /\ page.warnings = <<"No matching variants found.">>
    /\ page.download = Absent

===========================================================================
